---------------------------- MODULE Spec2Model ----------------------------
(***************************************************************************)
(* A model of backend/lambda_function.py: the request handler of the       *)
(* student-services chatbot.  One invocation of lambda_handler is a        *)
(* sequence of steps separated by the calls it makes to external services  *)
(* (S3 for the knowledge base, Lex for the dialogue engine, Comprehend for *)
(* key phrases and sentiment).  What a service answers is chosen           *)
(* nondeterministically at the step that calls it.                         *)
(*                                                                         *)
(* Python strings whose characters matter (utterances, keywords, replies,  *)
(* environment values) are sequences of one-character strings; the         *)
(* character U+2019, which a TLA+ string literal cannot hold, is the       *)
(* element RSQUO.  Python and JSON values are records tagged by type.      *)
(***************************************************************************)
EXTENDS Integers, Sequences, FiniteSets

VARIABLES
    event,       \* the request event; the same for both invocations
    kbStore,     \* what the S3 object holding the knowledge base is like
    environ,     \* environ[r]: os.environ of invocation r
    pc,          \* pc[r]: where invocation r is in lambda_handler
    user_msg,    \* user_msg[r]: the extracted message
    kb,          \* kb[r]: the loaded knowledge base
    lex_resp,    \* lex_resp[r]: what recognize_text did
    lex_out,     \* lex_out[r]: what _lex_reply_if_configured returned
    kp_out,      \* kp_out[r]: what detect_key_phrases did
    phrases,     \* phrases[r]: what _key_phrases returned
    intent,      \* intent[r], reply[r]: the keyword routing's result
    reply,
    sent_out,    \* sent_out[r]: what detect_sentiment did
    response,    \* response[r]: what lambda_handler returned
    calls        \* calls[r][s]: calls invocation r made to service s

vars == << event, kbStore, environ, pc, user_msg, kb, lex_resp, lex_out,
           kp_out, phrases, intent, reply, sent_out, response, calls >>

\* The largest number of key phrases one detect_key_phrases answer holds.
MaxPhrases == 2

-----------------------------------------------------------------------------
(* Python and JSON values *)

\* U+2019 RIGHT SINGLE QUOTATION MARK, one character
RSQUO == "U+2019"

\* a key that is not in the dict, or an environment variable that is not set
Absent == [t |-> "absent"]
\* Python None, JSON null
None == [t |-> "null"]
Str(s) == [t |-> "str", v |-> s]
Num(n) == [t |-> "num", n |-> n]
\* a dict of which only the key "message" is read
Dict(m) == [t |-> "dict", message |-> m]
\* a non-empty list
List == [t |-> "list"]
\* Python True
True == [t |-> "bool", b |-> TRUE]
\* a dict d from str keys to str values, {} being EmptyDict
KbDict(d) == [t |-> "dict", d |-> d]
EmptyDict == [k \in {} |-> << >>]
\* a local variable not assigned yet, a call not made
Unset == [t |-> "unset"]
\* a str holding the text doc, of which only json.loads reads the characters
Doc(doc) == [t |-> "str", doc |-> doc]
\* a call that ended in an exception of class exc with message msg
Raised(exc, msg) == [t |-> "raised", exc |-> exc, msg |-> msg]

IsStr(x) == x.t = "str"
IsRaised(x) == x.t = "raised"

\* Python truthiness of x
Truthy(x) ==
    CASE x.t = "absent" -> FALSE
      [] x.t = "null" -> FALSE
      [] x.t = "str" -> x.v # << >>
      [] x.t = "num" -> x.n # 0
      [] OTHER -> TRUE

\* x or y
Or(x, y) == IF Truthy(x) THEN x ELSE y

\* d.get(key): None when the key is absent
Get(x) == IF x = Absent THEN None ELSE x
\* d.get(key, default)
GetOr(x, default) == IF x = Absent THEN default ELSE x

-----------------------------------------------------------------------------
(* str methods *)

Whitespace == {" ", "\t", "\n", "\r"}

RECURSIVE LStrip(_)
LStrip(s) ==
    IF s # << >> /\ Head(s) \in Whitespace THEN LStrip(Tail(s)) ELSE s

RECURSIVE RStrip(_)
RStrip(s) ==
    IF s # << >> /\ s[Len(s)] \in Whitespace
    THEN RStrip(SubSeq(s, 1, Len(s) - 1))
    ELSE s

\* s.strip()
Strip(s) == RStrip(LStrip(s))

UpperLetters ==
    << "A","B","C","D","E","F","G","H","I","J","K","L","M",
       "N","O","P","Q","R","S","T","U","V","W","X","Y","Z" >>
LowerLetters ==
    << "a","b","c","d","e","f","g","h","i","j","k","l","m",
       "n","o","p","q","r","s","t","u","v","w","x","y","z" >>

MapChar(from, to, c) ==
    IF \E i \in DOMAIN from : from[i] = c
    THEN to[CHOOSE i \in DOMAIN from : from[i] = c]
    ELSE c

RECURSIVE MapChars(_, _, _)
MapChars(from, to, s) ==
    IF s = << >> THEN << >>
    ELSE << MapChar(from, to, Head(s)) >> \o MapChars(from, to, Tail(s))

\* s.lower()
Lower(s) == MapChars(UpperLetters, LowerLetters, s)
\* s.upper()
Upper(s) == MapChars(LowerLetters, UpperLetters, s)

\* sub in s
Contains(s, sub) ==
    \E i \in 0..(Len(s) - Len(sub)) : \A k \in 1..Len(sub) : s[i + k] = sub[k]

\* " ".join(list)
RECURSIVE Join(_)
Join(list) ==
    IF list = << >> THEN << >>
    ELSE IF Len(list) = 1 THEN Head(list)
    ELSE Head(list) \o << " " >> \o Join(Tail(list))

\* any(w in s for w in words)
AnyIn(words, s) == \E i \in DOMAIN words : Contains(s, words[i])

-----------------------------------------------------------------------------
(* The literals of lambda_function.py *)

\* OPTIONS
OPTIONS == 
    << "O","P","T","I","O","N","S" >>
\* false
FalseToken == 
    << "f","a","l","s","e" >>
\* true
TrueToken == 
    << "t","r","u","e" >>

\* the keywords of the greeting rule, in the order of the list
\* hi
kwHi == 
    << "h","i" >>
\* hello
kwHello == 
    << "h","e","l","l","o" >>
\* hey
kwHey == 
    << "h","e","y" >>
\* good morning
kwGoodMorning == 
    << "g","o","o","d"," ","m","o","r","n","i","n","g" >>
\* good afternoon
kwGoodAfternoon == 
    << "g","o","o","d"," ","a","f","t","e","r","n","o","o","n" >>
\* good evening
kwGoodEvening == 
    << "g","o","o","d"," ","e","v","e","n","i","n","g" >>
GreetingWords ==
    << kwHi, kwHello, kwHey, kwGoodMorning, kwGoodAfternoon, kwGoodEvening >>

\* program
kwProgram == 
    << "p","r","o","g","r","a","m" >>
\* course
kwCourse == 
    << "c","o","u","r","s","e" >>
\* diploma
kwDiploma == 
    << "d","i","p","l","o","m","a" >>
\* degree
kwDegree == 
    << "d","e","g","r","e","e" >>
\* tuition
kwTuition == 
    << "t","u","i","t","i","o","n" >>
\* fee
kwFee == 
    << "f","e","e" >>
ProgramWords == << kwProgram, kwCourse, kwDiploma, kwDegree, kwTuition, kwFee >>

\* register
kwRegister == 
    << "r","e","g","i","s","t","e","r" >>
\* registration
kwRegistration == 
    << "r","e","g","i","s","t","r","a","t","i","o","n" >>
\* enroll
kwEnroll == 
    << "e","n","r","o","l","l" >>
\* enrollment
kwEnrollment == 
    << "e","n","r","o","l","l","m","e","n","t" >>
\* admission
kwAdmission == 
    << "a","d","m","i","s","s","i","o","n" >>
\* apply
kwApply == 
    << "a","p","p","l","y" >>
RegistrationWords ==
    << kwRegister, kwRegistration, kwEnroll, kwEnrollment, kwAdmission, kwApply >>

\* support
kwSupport == 
    << "s","u","p","p","o","r","t" >>
\* counsel
kwCounsel == 
    << "c","o","u","n","s","e","l" >>
\* advis
kwAdvis == 
    << "a","d","v","i","s" >>
\* career
kwCareer == 
    << "c","a","r","e","e","r" >>
\* help
kwHelp == 
    << "h","e","l","p" >>
\* guidance
kwGuidance == 
    << "g","u","i","d","a","n","c","e" >>
SupportWords == << kwSupport, kwCounsel, kwAdvis, kwCareer, kwHelp, kwGuidance >>

\* GreetingIntent
GreetingIntent == 
    << "G","r","e","e","t","i","n","g","I","n","t","e","n","t" >>
\* ProgramInfoIntent
ProgramInfoIntent == 
    << "P","r","o","g","r","a","m","I","n","f","o","I","n","t","e","n","t" >>
\* RegistrationHelpIntent
RegistrationHelpIntent == 
    << "R","e","g","i","s","t","r","a","t","i","o","n","H","e","l","p","I",
       "n","t","e","n","t" >>
\* SupportServicesIntent
SupportServicesIntent == 
    << "S","u","p","p","o","r","t","S","e","r","v","i","c","e","s","I","n",
       "t","e","n","t" >>
\* FallbackIntent
FallbackIntent == 
    << "F","a","l","l","b","a","c","k","I","n","t","e","n","t" >>
\* LexIntent
LexIntent == 
    << "L","e","x","I","n","t","e","n","t" >>
\* BadRequest
BadRequest == 
    << "B","a","d","R","e","q","u","e","s","t" >>
\* ServerConfigError
ServerConfigError == 
    << "S","e","r","v","e","r","C","o","n","f","i","g","E","r","r","o","r" >>
\* KBLoadError
KBLoadError == 
    << "K","B","L","o","a","d","E","r","r","o","r" >>

\* Hi! How can I help you today?
GreetingDefault == 
    << "H","i","!"," ","H","o","w"," ","c","a","n"," ","I"," ","h","e","l",
       "p"," ","y","o","u"," ","t","o","d","a","y","?" >>
\* We offer multiple programs. Ask which field you(U+2019)re interested in.
ProgramInfoDefault == 
    << "W","e"," ","o","f","f","e","r"," ","m","u","l","t","i","p","l","e",
       " ","p","r","o","g","r","a","m","s","."," ","A","s","k"," ","w","h",
       "i","c","h"," ","f","i","e","l","d"," ","y","o","u",RSQUO,"r","e"," ",
       "i","n","t","e","r","e","s","t","e","d"," ","i","n","." >>
\* You can register via the student portal. Need step-by-step help?
RegistrationHelpDefault == 
    << "Y","o","u"," ","c","a","n"," ","r","e","g","i","s","t","e","r"," ",
       "v","i","a"," ","t","h","e"," ","s","t","u","d","e","n","t"," ","p",
       "o","r","t","a","l","."," ","N","e","e","d"," ","s","t","e","p","-",
       "b","y","-","s","t","e","p"," ","h","e","l","p","?" >>
\* We provide student support services such as advising and career help.
SupportServicesDefault == 
    << "W","e"," ","p","r","o","v","i","d","e"," ","s","t","u","d","e","n",
       "t"," ","s","u","p","p","o","r","t"," ","s","e","r","v","i","c","e",
       "s"," ","s","u","c","h"," ","a","s"," ","a","d","v","i","s","i","n",
       "g"," ","a","n","d"," ","c","a","r","e","e","r"," ","h","e","l","p","." >>
\* I(U+2019)m not sure about that yet. Ask about programs, registration, or support services.
FallbackDefault == 
    << "I",RSQUO,"m"," ","n","o","t"," ","s","u","r","e"," ","a","b","o","u",
       "t"," ","t","h","a","t"," ","y","e","t","."," ","A","s","k"," ","a",
       "b","o","u","t"," ","p","r","o","g","r","a","m","s",","," ","r","e",
       "g","i","s","t","r","a","t","i","o","n",","," ","o","r"," ","s","u",
       "p","p","o","r","t"," ","s","e","r","v","i","c","e","s","." >>
\* Missing 'message' in request.
MissingMessageReply == 
    << "M","i","s","s","i","n","g"," ","'","m","e","s","s","a","g","e","'",
       " ","i","n"," ","r","e","q","u","e","s","t","." >>
\* Server misconfigured: KB_BUCKET not set.
MisconfiguredReply == 
    << "S","e","r","v","e","r"," ","m","i","s","c","o","n","f","i","g","u",
       "r","e","d",":"," ","K","B","_","B","U","C","K","E","T"," ","n","o",
       "t"," ","s","e","t","." >>
\* KB load error from S3: 
KBLoadErrorFromS3Prefix == 
    << "K","B"," ","l","o","a","d"," ","e","r","r","o","r"," ","f","r","o",
       "m"," ","S","3",":"," " >>
\* KB load error: 
KBLoadErrorPrefix == 
    << "K","B"," ","l","o","a","d"," ","e","r","r","o","r",":"," " >>

-----------------------------------------------------------------------------
(* The helpers of lambda_function.py *)

\* _response(status_code, body_obj), without the fixed headers; body is the
\* object json.dumps serializes
_response(status_code, body_obj) ==
    [statusCode |-> status_code, body |-> body_obj]

\* ReplyBody with the sentiment stored under "reply" instead of "sentiment"
ReplyBodySentimentAsReply(reply_, intent_, sentiment) ==
    [ok |-> Absent, reply |-> IF Truthy(sentiment) THEN sentiment ELSE reply_,
     intent |-> intent_, sentiment |-> Absent]

\* the body {"reply": ..., "intent": ...}, with "sentiment" when it is truthy
ReplyBody(reply_, intent_, sentiment) ==
    [ok |-> Absent, reply |-> reply_, intent |-> intent_,
     sentiment |-> IF Truthy(sentiment) THEN sentiment ELSE Absent]

\* the body {"ok": True}
OkBody == [ok |-> True, reply |-> Absent, intent |-> Absent,
           sentiment |-> Absent]

\* json.loads(doc) of the documents the events carry
JsonLoads(doc) ==
    CASE doc = "{}" -> Dict(Absent)
      [] doc = "{\"message\": \"what\"}" -> Dict(Str(<< "w","h","a","t" >>))
      [] doc = "{\"message\": null}" -> Dict(None)
      [] doc = "{\"message\": 7}" -> Dict(Num(7))
      [] doc = "[1]" -> List
      [] OTHER -> Raised("JSONDecodeError", << >>)

\* _safe_json_loads(s)
_safe_json_loads(s) ==
    LET parsed == JsonLoads(s) IN IF IsRaised(parsed) THEN None ELSE parsed

\* (msg or "").strip(), which raises AttributeError when msg is truthy and
\* has no method strip
OrEmptyStrip(msg) ==
    LET m == Or(msg, Str(<< >>))
    IN  IF IsStr(m) THEN Str(Strip(m.v)) ELSE Raised("AttributeError", << >>)

\* _extract_message without the strip() of a top-level message
_extract_message_no_strip(ev) ==
    IF IsStr(ev.message) THEN Str(ev.message.v)
    ELSE LET body == Get(ev.body) IN
         IF body = None THEN Str(<< >>)
         ELSE IF body.t = "dict"
              THEN OrEmptyStrip(GetOr(body.message, Str(<< >>)))
         ELSE IF IsStr(body)
              THEN LET parsed == _safe_json_loads(body.doc) IN
                   IF parsed.t = "dict"
                   THEN OrEmptyStrip(GetOr(parsed.message, Str(<< >>)))
                   ELSE Str(<< >>)
         ELSE Str(<< >>)

\* _extract_message(event), for an event that is a dict
_extract_message(ev) ==
    IF IsStr(ev.message) THEN Str(Strip(ev.message.v))
    ELSE LET body == Get(ev.body) IN
         IF body = None THEN Str(<< >>)
         ELSE IF body.t = "dict"
              THEN OrEmptyStrip(GetOr(body.message, Str(<< >>)))
         ELSE IF IsStr(body)
              THEN LET parsed == _safe_json_loads(body.doc) IN
                   IF parsed.t = "dict"
                   THEN OrEmptyStrip(GetOr(parsed.message, Str(<< >>)))
                   ELSE Str(<< >>)
         ELSE Str(<< >>)

\* the method lambda_handler reads from the event, upper-cased
Method(ev) ==
    Upper(Or(Or(Get(ev.rcMethod), Get(ev.httpMethod)), Str(<< >>)).v)

\* os.environ.get(name, default).strip()
EnvStrip(value, default) == Strip(GetOr(value, Str(default)).v)

\* _load_kb_from_s3 taking an object that does not parse for an empty dict
_load_kb_from_s3_lenient(store) ==
    IF IsRaised(store) THEN store
    ELSE IF IsRaised(store.parsed) THEN KbDict(EmptyDict)
    ELSE IF store.parsed.t # "dict" THEN KbDict(EmptyDict)
    ELSE store.parsed

\* _load_kb_from_s3(bucket, key): the dict, or the exception get_object,
\* decode or json.loads raises
_load_kb_from_s3(store) ==
    IF IsRaised(store) THEN store
    ELSE IF IsRaised(store.parsed) THEN store.parsed
    ELSE IF store.parsed.t # "dict" THEN KbDict(EmptyDict)
    ELSE store.parsed

\* KbGet that never reads the knowledge base
KbGetDefaultOnly(kb_, intent_, default) == default

\* kb.get(intent, default)
KbGet(kb_, intent_, default) ==
    IF intent_ \in DOMAIN kb_.d THEN kb_.d[intent_] ELSE default

\* whether _detect_sentiment_if_enabled(text) calls Comprehend
UseSentiment(env, text) ==
    Lower(EnvStrip(env.USE_SENTIMENT, FalseToken)) = TrueToken /\ text # << >>

\* what _detect_sentiment_if_enabled returns when detect_sentiment did out
_detect_sentiment_if_enabled(out) == IF IsRaised(out) THEN None ELSE Get(out.Sentiment)

\* what _key_phrases returns when detect_key_phrases did out
_key_phrases(out) ==
    IF IsRaised(out) THEN << >>
    ELSE LET kept == SelectSeq(out.KeyPhrases, Truthy)
         IN  Join([i \in 1..Len(kept) |-> Lower(kept[i].v)])

\* whether _lex_reply_if_configured(user_text) calls Lex
LexConfigured(env, user_text) ==
    /\ EnvStrip(env.LEX_BOT_ID, << >>) # << >>
    /\ EnvStrip(env.LEX_BOT_ALIAS_ID, << >>) # << >>
    /\ user_text # << >>

\* _lex_reply_if_configured taking the last message instead of the first
_lex_reply_last_message(resp) ==
    IF IsRaised(resp) THEN None
    ELSE LET intent_name == IF resp.interpretations # << >>
                            THEN Get(resp.interpretations[1])
                            ELSE None
             lex_text == IF resp.messages # << >>
                         THEN Get(resp.messages[Len(resp.messages)])
                         ELSE None
         IN  IF Truthy(lex_text)
             THEN [t |-> "dict", reply |-> lex_text,
                   intent |-> Or(intent_name, Str(LexIntent))]
             ELSE None

\* _lex_reply_if_configured testing "lex_text is not None" instead of "lex_text"
_lex_reply_not_none(resp) ==
    IF IsRaised(resp) THEN None
    ELSE LET intent_name == IF resp.interpretations # << >>
                            THEN Get(resp.interpretations[1])
                            ELSE None
             lex_text == IF resp.messages # << >>
                         THEN Get(resp.messages[1])
                         ELSE None
         IN  IF lex_text # None
             THEN [t |-> "dict", reply |-> lex_text,
                   intent |-> Or(intent_name, Str(LexIntent))]
             ELSE None

\* what _lex_reply_if_configured returns when recognize_text did resp
_lex_reply_if_configured(resp) ==
    IF IsRaised(resp) THEN None
    ELSE LET intent_name == IF resp.interpretations # << >>
                            THEN Get(resp.interpretations[1])
                            ELSE None
             lex_text == IF resp.messages # << >>
                         THEN Get(resp.messages[1])
                         ELSE None
         IN  IF Truthy(lex_text)
             THEN [t |-> "dict", reply |-> lex_text,
                   intent |-> Or(intent_name, Str(LexIntent))]
             ELSE None

\* the body lambda_handler builds from a Lex reply
LexBody(lex_out_, sentiment) ==
    ReplyBody(lex_out_.reply, Or(Get(lex_out_.intent), Str(LexIntent)),
              sentiment)

\* the matching surface of the keyword rules other than the greeting rule
MatchText(lower_msg, phrases_) == Strip(lower_msg \o << " " >> \o phrases_)

\* Classify matching the greeting words against text instead of lower_msg
ClassifyGreetingOnText(lower_msg, text, kb_) ==
    IF AnyIn(GreetingWords, text)
    THEN [intent |-> GreetingIntent,
          reply |-> KbGet(kb_, GreetingIntent, GreetingDefault)]
    ELSE IF AnyIn(ProgramWords, text)
    THEN [intent |-> ProgramInfoIntent,
          reply |-> KbGet(kb_, ProgramInfoIntent, ProgramInfoDefault)]
    ELSE IF AnyIn(RegistrationWords, text)
    THEN [intent |-> RegistrationHelpIntent,
          reply |-> KbGet(kb_, RegistrationHelpIntent,
                          RegistrationHelpDefault)]
    ELSE IF AnyIn(SupportWords, text)
    THEN [intent |-> SupportServicesIntent,
          reply |-> KbGet(kb_, SupportServicesIntent, SupportServicesDefault)]
    ELSE [intent |-> FallbackIntent,
          reply |-> KbGet(kb_, FallbackIntent, FallbackDefault)]

\* Classify with the default replies of the last two rules exchanged
ClassifySwappedDefaults(lower_msg, text, kb_) ==
    IF AnyIn(GreetingWords, lower_msg)
    THEN [intent |-> GreetingIntent,
          reply |-> KbGet(kb_, GreetingIntent, GreetingDefault)]
    ELSE IF AnyIn(ProgramWords, text)
    THEN [intent |-> ProgramInfoIntent,
          reply |-> KbGet(kb_, ProgramInfoIntent, ProgramInfoDefault)]
    ELSE IF AnyIn(RegistrationWords, text)
    THEN [intent |-> RegistrationHelpIntent,
          reply |-> KbGet(kb_, RegistrationHelpIntent,
                          RegistrationHelpDefault)]
    ELSE IF AnyIn(SupportWords, text)
    THEN [intent |-> SupportServicesIntent,
          reply |-> KbGet(kb_, SupportServicesIntent, FallbackDefault)]
    ELSE [intent |-> FallbackIntent,
          reply |-> KbGet(kb_, FallbackIntent, SupportServicesDefault)]

\* the keyword routing of lambda_handler: the intent and its reply
Classify(lower_msg, text, kb_) ==
    IF AnyIn(GreetingWords, lower_msg)
    THEN [intent |-> GreetingIntent,
          reply |-> KbGet(kb_, GreetingIntent, GreetingDefault)]
    ELSE IF AnyIn(ProgramWords, text)
    THEN [intent |-> ProgramInfoIntent,
          reply |-> KbGet(kb_, ProgramInfoIntent, ProgramInfoDefault)]
    ELSE IF AnyIn(RegistrationWords, text)
    THEN [intent |-> RegistrationHelpIntent,
          reply |-> KbGet(kb_, RegistrationHelpIntent,
                          RegistrationHelpDefault)]
    ELSE IF AnyIn(SupportWords, text)
    THEN [intent |-> SupportServicesIntent,
          reply |-> KbGet(kb_, SupportServicesIntent, SupportServicesDefault)]
    ELSE [intent |-> FallbackIntent,
          reply |-> KbGet(kb_, FallbackIntent, FallbackDefault)]

-----------------------------------------------------------------------------
(* The requests, the configurations and the services' answers *)

\* 
uEmpty == << >>
\*   
uBlank == 
    << " "," " >>
\*  Hi 
uHi == 
    << " ","H","i"," " >>
\* this fee
uThisFee == 
    << "t","h","i","s"," ","f","e","e" >>
\* Fee apply
uFeeApply == 
    << "F","e","e"," ","a","p","p","l","y" >>
\* apply help
uApplyHelp == 
    << "a","p","p","l","y"," ","h","e","l","p" >>
\* help
uHelp == 
    << "h","e","l","p" >>
\* what
uWhat == 
    << "w","h","a","t" >>
\* POST
POST == 
    << "P","O","S","T" >>
\* options
optionsLower == 
    << "o","p","t","i","o","n","s" >>
\* kb-bucket
kbBucketName == 
    << "k","b","-","b","u","c","k","e","t" >>
\* BOT1
botId == 
    << "B","O","T","1" >>
\* ALIAS1
aliasId == 
    << "A","L","I","A","S","1" >>
\*  TRUE 
flagTrueSpaced == 
    << " ","T","R","U","E"," " >>
\* yes
flagYes == 
    << "y","e","s" >>
\* Tuition
phraseTuition == 
    << "T","u","i","t","i","o","n" >>
\* Hi
phraseHi == 
    << "H","i" >>
\* Welcome!
lexWelcome == 
    << "W","e","l","c","o","m","e","!" >>
\* Anything else?
lexSecond == 
    << "A","n","y","t","h","i","n","g"," ","e","l","s","e","?" >>
\* Greeting2
lexGreeting2 == 
    << "G","r","e","e","t","i","n","g","2" >>
\* OtherIntent
lexOther == 
    << "O","t","h","e","r","I","n","t","e","n","t" >>
\* kb: hello there
kbGreeting == 
    << "k","b",":"," ","h","e","l","l","o"," ","t","h","e","r","e" >>
\* kb: our programs
kbProgramInfo == 
    << "k","b",":"," ","o","u","r"," ","p","r","o","g","r","a","m","s" >>
\* kb: how to register
kbRegistrationHelp == 
    << "k","b",":"," ","h","o","w"," ","t","o"," ","r","e","g","i","s","t",
       "e","r" >>
\* kb: support desk
kbSupportServices == 
    << "k","b",":"," ","s","u","p","p","o","r","t"," ","d","e","s","k" >>
\* kb: please rephrase
kbFallback == 
    << "k","b",":"," ","p","l","e","a","s","e"," ","r","e","p","h","r","a",
       "s","e" >>
\* NoSuchKey
errNoSuchKey == 
    << "N","o","S","u","c","h","K","e","y" >>
\* Expecting value
errJsonDecode == 
    << "E","x","p","e","c","t","i","n","g"," ","v","a","l","u","e" >>
\* POSITIVE
POSITIVE == 
    << "P","O","S","I","T","I","V","E" >>
\* NEGATIVE
NEGATIVE == 
    << "N","E","G","A","T","I","V","E" >>

Utterances ==
    { uEmpty, uBlank, uHi, uThisFee, uFeeApply, uApplyHelp, uHelp, uWhat }

\* An event: the method under requestContext.http.method, the method under
\* httpMethod, the value under message and the value under body.
Event(rc, http, message, body) ==
    [rcMethod |-> rc, httpMethod |-> http, message |-> message, body |-> body]

Methods ==
    { << Absent, Absent >>, << Absent, Str(POST) >>,
      << Str(OPTIONS), Absent >>, << Absent, Str(optionsLower) >>,
      << Str(POST), Str(OPTIONS) >> }

\* {"message": u}, under every method
DirectEvents ==
    { Event(m[1], m[2], Str(u), Absent) : m \in Methods, u \in Utterances }

\* the other shapes of message and body, as pairs << message, body >>
Shapes ==
    { << Absent, Absent >>, << Num(5), Absent >>, << None, None >>,
      << Num(5), Dict(Str(uHelp)) >>,
      << Absent, Dict(Absent) >>, << Absent, Dict(None) >>,
      << Absent, Dict(Num(0)) >>, << Absent, Dict(Num(5)) >>,
      << Absent, Dict(List) >>, << Absent, Dict(Str(uBlank)) >>,
      << Absent, Dict(Str(uHi)) >>,
      << Absent, Doc("not json") >>, << Absent, Doc("[1]") >>,
      << Absent, Doc("{}") >>, << Absent, Doc("{\"message\": \"what\"}") >>,
      << Absent, Doc("{\"message\": null}") >>,
      << Absent, Doc("{\"message\": 7}") >>,
      << Absent, List >> }

ShapeEvents == { Event(Absent, Str(POST), s[1], s[2]) : s \in Shapes }

Events == DirectEvents \cup ShapeEvents

\* os.environ: the variables lambda_function.py reads
Environ(bucket, bot, alias, flag) ==
    [KB_BUCKET |-> bucket, LEX_BOT_ID |-> bot, LEX_BOT_ALIAS_ID |-> alias,
     USE_SENTIMENT |-> flag]

Buckets == { Absent, Str(uBlank), Str(kbBucketName) }
LexSettings ==
    { << Absent, Absent >>, << Str(botId), Absent >>,
      << Str(uBlank), Str(aliasId) >>, << Str(botId), Str(aliasId) >> }
Flags == { Absent, Str(flagYes), Str(flagTrueSpaced) }

Environs ==
    { Environ(b, l[1], l[2], f) : b \in Buckets, l \in LexSettings, f \in Flags }

Intents ==
    { GreetingIntent, ProgramInfoIntent, RegistrationHelpIntent,
      SupportServicesIntent, FallbackIntent }

\* the reply a knowledge base holds for an intent, when it holds one
CustomReply(intent_) ==
    CASE intent_ = GreetingIntent -> kbGreeting
      [] intent_ = ProgramInfoIntent -> kbProgramInfo
      [] intent_ = RegistrationHelpIntent -> kbRegistrationHelp
      [] intent_ = SupportServicesIntent -> kbSupportServices
      [] intent_ = FallbackIntent -> kbFallback

KbOf(keys) == KbDict([k \in keys |-> CustomReply(k)])

KbKeySets ==
    { {}, Intents, { GreetingIntent, RegistrationHelpIntent, FallbackIntent },
      { ProgramInfoIntent, SupportServicesIntent } }

\* the S3 object: get_object raises, or the object's text parses to parsed
Object(parsed) == [t |-> "object", parsed |-> parsed]

KbStores ==
    { Raised("ClientError", errNoSuchKey),
      Object(Raised("JSONDecodeError", errJsonDecode)),
      Object(List) }
    \cup { Object(KbOf(keys)) : keys \in KbKeySets }

\* recognize_text: the intent names of the interpretations and the contents
\* of the messages, in order
LexResp(interpretations, messages) ==
    [t |-> "resp", interpretations |-> interpretations, messages |-> messages]

LexOutcomes ==
    { Raised("ClientError", << >>),
      LexResp(<< Str(lexGreeting2) >>, << >>),
      LexResp(<< Str(lexGreeting2) >>, << Str(<< >>) >>),
      LexResp(<< Str(lexGreeting2), Str(lexOther) >>,
              << Str(lexWelcome), Str(lexSecond) >>),
      LexResp(<< Absent >>, << Str(lexWelcome) >>),
      LexResp(<< >>, << Str(lexWelcome) >>) }

\* detect_key_phrases: the Text of each key phrase, Absent when it has none
KeyPhrasesResp(texts) == [t |-> "resp", KeyPhrases |-> texts]

PhraseTexts == { Str(phraseTuition), Str(phraseHi) }

SeqsUpTo(S, n) == UNION { [1..k -> S] : k \in 0..n }

KeyPhraseOutcomes ==
    { Raised("ClientError", << >>),
      KeyPhrasesResp(<< Absent, Str(phraseTuition) >>) }
    \cup { KeyPhrasesResp(s) : s \in SeqsUpTo(PhraseTexts, MaxPhrases) }

\* detect_sentiment
SentimentResp(label) == [t |-> "resp", Sentiment |-> label]

SentimentOutcomes ==
    { Raised("ClientError", << >>), SentimentResp(Absent),
      SentimentResp(Str(POSITIVE)), SentimentResp(Str(NEGATIVE)) }

-----------------------------------------------------------------------------
(* lambda_handler *)

Invocations == { 1, 2 }

NoCalls == [s3 |-> 0, lex |-> 0, key_phrases |-> 0, sentiment |-> 0]

\* invocation r ends, returning resp or raising it
End(r, how, resp) ==
    /\ pc' = [pc EXCEPT ![r] = how]
    /\ response' = [response EXCEPT ![r] = resp]

Goto(r, label) ==
    /\ pc' = [pc EXCEPT ![r] = label]
    /\ UNCHANGED response

Called(r, service) == calls' = [calls EXCEPT ![r][service] = @ + 1]

\* the error reply of a failed knowledge-base load
KbErrorReply(e) ==
    IF e.exc = "ClientError"
    THEN KBLoadErrorFromS3Prefix \o e.msg
    ELSE KBLoadErrorPrefix \o e.msg

\* The preflight answer, the message and the answer to a request without one.
Receive(r) ==
    /\ pc[r] = "start"
    /\ IF Method(event) = OPTIONS
       THEN /\ End(r, "returned", _response(200, OkBody))
            /\ UNCHANGED user_msg
       ELSE LET m == _extract_message(event) IN
            IF IsRaised(m)
            THEN /\ End(r, "raised", m)
                 /\ UNCHANGED user_msg
            ELSE /\ user_msg' = [user_msg EXCEPT ![r] = m]
                 /\ IF m.v = << >>
                    THEN End(r, "returned",
                             _response(400, ReplyBody(Str(MissingMessageReply),
                                                     Str(BadRequest), None)))
                    ELSE Goto(r, "load_kb")
    /\ UNCHANGED << event, kbStore, environ, kb, lex_resp, lex_out, kp_out,
                    phrases, intent, reply, sent_out, calls >>

\* The knowledge base is loaded from S3.
LoadKb(r) ==
    /\ pc[r] = "load_kb"
    /\ IF EnvStrip(environ[r].KB_BUCKET, << >>) = << >>
       THEN /\ End(r, "returned",
                   _response(500, ReplyBody(Str(MisconfiguredReply),
                                           Str(ServerConfigError), None)))
            /\ UNCHANGED << kb, calls >>
       ELSE LET loaded == _load_kb_from_s3(kbStore) IN
            /\ Called(r, "s3")
            /\ IF IsRaised(loaded)
               THEN /\ End(r, "returned",
                           _response(500, ReplyBody(Str(KbErrorReply(loaded)),
                                                   Str(KBLoadError), None)))
                    /\ UNCHANGED kb
               ELSE /\ kb' = [kb EXCEPT ![r] = loaded]
                    /\ Goto(r, "lex")
    /\ UNCHANGED << event, kbStore, environ, user_msg, lex_resp, lex_out,
                    kp_out, phrases, intent, reply, sent_out >>

\* TryLex calling recognize_text a second time when the first call raises
TryLexRetrying(r) ==
    /\ pc[r] = "lex"
    /\ \E first \in IF LexConfigured(environ[r], user_msg[r].v)
                    THEN LexOutcomes ELSE { Unset } :
          \E resp \in IF IsRaised(first) THEN LexOutcomes ELSE { first } :
             LET out == IF resp = Unset THEN None ELSE _lex_reply_if_configured(resp) IN
             /\ lex_resp' = [lex_resp EXCEPT ![r] = resp]
             /\ lex_out' = [lex_out EXCEPT ![r] = out]
             /\ calls' = [calls EXCEPT ![r].lex =
                             IF resp = Unset THEN @
                             ELSE IF IsRaised(first) THEN @ + 2 ELSE @ + 1]
             /\ Goto(r, IF Truthy(out) THEN "lex_reply" ELSE "keywords")
    /\ UNCHANGED << event, kbStore, environ, user_msg, kb, kp_out, phrases,
                    intent, reply, sent_out >>

\* Lex is tried, when it is configured.
TryLex(r) ==
    /\ pc[r] = "lex"
    /\ \E resp \in IF LexConfigured(environ[r], user_msg[r].v)
                   THEN LexOutcomes ELSE { Unset } :
          LET out == IF resp = Unset THEN None ELSE _lex_reply_if_configured(resp) IN
          /\ lex_resp' = [lex_resp EXCEPT ![r] = resp]
          /\ lex_out' = [lex_out EXCEPT ![r] = out]
          /\ IF resp = Unset THEN UNCHANGED calls ELSE Called(r, "lex")
          /\ Goto(r, IF Truthy(out) THEN "lex_reply" ELSE "keywords")
    /\ UNCHANGED << event, kbStore, environ, user_msg, kb, kp_out, phrases,
                    intent, reply, sent_out >>

\* what detect_sentiment may do in invocation r: Unset when it is not called
SentimentCalls(r) ==
    IF UseSentiment(environ[r], user_msg[r].v)
    THEN SentimentOutcomes ELSE { Unset }

\* what _detect_sentiment_if_enabled returns then
DetectedSentiment(out) == IF out = Unset THEN None ELSE _detect_sentiment_if_enabled(out)

\* invocation r returns status 200 and body_obj, detect_sentiment having
\* done out
ReturnReply(r, out, body_obj) ==
    /\ sent_out' = [sent_out EXCEPT ![r] = out]
    /\ IF out = Unset THEN UNCHANGED calls ELSE Called(r, "sentiment")
    /\ End(r, "returned", _response(200, body_obj))

\* Lex answered: the sentiment is detected and the reply of Lex returned.
ReplyLex(r) ==
    /\ pc[r] = "lex_reply"
    /\ \E out \in SentimentCalls(r) :
          ReturnReply(r, out, LexBody(lex_out[r], DetectedSentiment(out)))
    /\ UNCHANGED << event, kbStore, environ, user_msg, kb, lex_resp, lex_out,
                    kp_out, phrases, intent, reply >>

\* Lex did not answer: the key phrases are fetched and the keywords routed.
Keywords(r) ==
    /\ pc[r] = "keywords"
    /\ \E out \in KeyPhraseOutcomes :
          LET lower_msg == Lower(Strip(user_msg[r].v))
              phrases_ == _key_phrases(out)
              routed == Classify(lower_msg, MatchText(lower_msg, phrases_),
                                 kb[r])
          IN  /\ kp_out' = [kp_out EXCEPT ![r] = out]
              /\ phrases' = [phrases EXCEPT ![r] = Str(phrases_)]
              /\ intent' = [intent EXCEPT ![r] = Str(routed.intent)]
              /\ reply' = [reply EXCEPT ![r] = Str(routed.reply)]
    /\ Called(r, "key_phrases")
    /\ Goto(r, "keyword_reply")
    /\ UNCHANGED << event, kbStore, environ, user_msg, kb, lex_resp, lex_out,
                    sent_out >>

\* The sentiment is detected and the routed reply returned.
ReplyKeyword(r) ==
    /\ pc[r] = "keyword_reply"
    /\ \E out \in SentimentCalls(r) :
          ReturnReply(r, out,
                      ReplyBody(reply[r], intent[r], DetectedSentiment(out)))
    /\ UNCHANGED << event, kbStore, environ, user_msg, kb, lex_resp, lex_out,
                    kp_out, phrases, intent, reply >>

lambda_handler(r) ==
    \/ Receive(r)
    \/ LoadKb(r)
    \/ TryLex(r)
    \/ ReplyLex(r)
    \/ Keywords(r)
    \/ ReplyKeyword(r)

Ended(r) == pc[r] \in { "returned", "raised" }

Fresh ==
    /\ pc = [r \in Invocations |-> "start"]
    /\ user_msg = [r \in Invocations |-> Unset]
    /\ kb = [r \in Invocations |-> Unset]
    /\ lex_resp = [r \in Invocations |-> Unset]
    /\ lex_out = [r \in Invocations |-> Unset]
    /\ kp_out = [r \in Invocations |-> Unset]
    /\ phrases = [r \in Invocations |-> Unset]
    /\ intent = [r \in Invocations |-> Unset]
    /\ reply = [r \in Invocations |-> Unset]
    /\ sent_out = [r \in Invocations |-> Unset]
    /\ response = [r \in Invocations |-> Unset]
    /\ calls = [r \in Invocations |-> NoCalls]

\* One invocation, of any event under any configuration.
Init ==
    /\ event \in Events
    /\ kbStore \in KbStores
    /\ \E e \in Environs : environ = [r \in Invocations |-> e]
    /\ Fresh

Next == lambda_handler(1)

Spec == Init /\ [][Next]_vars

\* Two invocations, one after the other, of the same event against the same
\* S3 object; their configurations differ at most in the Lex variables.
PairEvents ==
    { Event(Absent, Str(POST), Str(u), Absent) :
        u \in { uBlank, uHi, uFeeApply, uWhat } }

PairKbStores ==
    { Raised("ClientError", errNoSuchKey),
      Object(KbOf({ ProgramInfoIntent, SupportServicesIntent })) }

PairLexSettings == { << Absent, Absent >>, << Str(botId), Str(aliasId) >> }

InitPair ==
    /\ event \in PairEvents
    /\ kbStore \in PairKbStores
    /\ \E b \in { Absent, Str(kbBucketName) }, f \in { Absent, Str(flagTrueSpaced) },
          l1 \in PairLexSettings, l2 \in PairLexSettings :
          environ = [r \in Invocations |->
                        IF r = 1 THEN Environ(b, l1[1], l1[2], f)
                        ELSE Environ(b, l2[1], l2[2], f)]
    /\ Fresh

NextPair ==
    \/ lambda_handler(1)
    \/ Ended(1) /\ lambda_handler(2)

SpecPair == InitPair /\ [][NextPair]_vars

-----------------------------------------------------------------------------
(* What the properties below speak of *)

Range(s) == { s[i] : i \in DOMAIN s }

AllWhitespace(s) == \A i \in DOMAIN s : s[i] \in Whitespace

\* x holds no text: it is missing, null, or an empty or whitespace-only str
Blank(x) == x \in { Absent, None } \/ (IsStr(x) /\ AllWhitespace(x.v))

\* the message field inside the body of ev, Absent when there is none
BodyMessage(ev) ==
    IF ev.body.t = "dict" THEN ev.body.message
    ELSE IF ev.body.t = "str"
         THEN LET parsed == JsonLoads(ev.body.doc)
              IN  IF parsed.t = "dict" THEN parsed.message ELSE Absent
    ELSE Absent

\* the message of ev is missing, empty or whitespace-only
MessageMissing(ev) == Blank(ev.message) /\ Blank(BodyMessage(ev))

\* ev carries a non-empty message
HasMessage(ev) ==
    \/ IsStr(ev.message) /\ ~AllWhitespace(ev.message.v)
    \/ /\ ~IsStr(ev.message)
       /\ IsStr(BodyMessage(ev))
       /\ ~AllWhitespace(BodyMessage(ev).v)

\* ev carries a message that is not a str, and none that is
PresentNotStr(x) == x.t \notin { "absent", "str" }
NonStrMessage(ev) ==
    /\ PresentNotStr(ev.message) \/ PresentNotStr(BodyMessage(ev))
    /\ ~IsStr(ev.message)
    /\ ~IsStr(BodyMessage(ev))

Preflight(ev) == Method(ev) = OPTIONS

Returned(r) == pc[r] = "returned"
StatusOf(r) == response[r].statusCode
IntentOf(r) == response[r].body.intent
ReplyOf(r) == response[r].body.reply
SentimentIn(r) == response[r].body.sentiment

\* invocation r returned the reply of the keyword routing
ByKeywords(r) == Returned(r) /\ kp_out[r] # Unset

\* the knowledge base the S3 object holds: no entry when it is not a dict
Snapshot ==
    IF kbStore.t = "object" /\ kbStore.parsed.t = "dict"
    THEN kbStore.parsed.d
    ELSE EmptyDict

Services == { "s3", "lex", "key_phrases", "sentiment" }

-----------------------------------------------------------------------------
(* C1 *)

\* the normalized text and the matching surface of invocation r
Normalized(r) == Lower(Strip(user_msg[r].v))
Surface(r) == Normalized(r) \o << " " >> \o phrases[r].v

Occurs(words, s) == \E w \in Range(words) : Contains(s, w)

\* which of the five rules, in their fixed order, match in invocation r
RuleMatches(r) ==
    LET normalized == Normalized(r)
        surface == Surface(r)
    IN  << Occurs(GreetingWords, normalized), Occurs(ProgramWords, surface),
           Occurs(RegistrationWords, surface), Occurs(SupportWords, surface),
           TRUE >>

RuleIntents ==
    << GreetingIntent, ProgramInfoIntent, RegistrationHelpIntent,
       SupportServicesIntent, FallbackIntent >>

FirstRule(r) ==
    LET matches == RuleMatches(r)
    IN  CHOOSE i \in 1..5 : matches[i] /\ \A j \in 1..(i - 1) : ~matches[j]

\* C1: once a request is keyword-routed, its intent is the intent of the
\* first rule, in the order Greeting, ProgramInfo, RegistrationHelp,
\* SupportServices, with a keyword occurring in its matching surface (the
\* normalized text for Greeting, the normalized text joined with the key
\* phrases for the others), and Fallback exactly when no rule matches; the
\* response carries that intent.
C1_FirstMatchingRuleWins ==
    /\ pc[1] = "keyword_reply" \/ ByKeywords(1)
          => intent[1] = Str(RuleIntents[FirstRule(1)])
    /\ ByKeywords(1) => StatusOf(1) = 200 /\ IntentOf(1) = intent[1]

\* A greeting token inside "this" and ProgramInfo keywords after it and
\* among the key phrases: Greeting.
C1_Witness ==
    /\ ByKeywords(1)
    /\ user_msg[1] = Str(uThisFee)
    /\ RuleMatches(1)[1] /\ RuleMatches(1)[2]
    /\ Contains(phrases[1].v, kwTuition)
    /\ IntentOf(1) = Str(GreetingIntent)

-----------------------------------------------------------------------------
(* C2 *)

\* recognize_text answered invocation r with a first message of non-empty
\* content and a first interpretation with an intent name
LexAnswered(r) ==
    /\ lex_resp[r].t = "resp"
    /\ lex_resp[r].messages # << >>
    /\ IsStr(lex_resp[r].messages[1])
    /\ lex_resp[r].messages[1].v # << >>
    /\ lex_resp[r].interpretations # << >>
    /\ IsStr(lex_resp[r].interpretations[1])
    /\ lex_resp[r].interpretations[1].v # << >>

\* C2: when Lex answers with a first message of non-empty content R and a
\* first interpretation named I, the keyword routing is bypassed, key phrases
\* are never fetched, and the response has status 200, reply R and intent I.
C2_LexReplyReturnedUnchanged ==
    LexAnswered(1) =>
        /\ pc[1] \in { "lex_reply", "returned" }
        /\ kp_out[1] = Unset /\ calls[1].key_phrases = 0
        /\ intent[1] = Unset /\ reply[1] = Unset
        /\ Returned(1) =>
              /\ StatusOf(1) = 200
              /\ ReplyOf(1) = lex_resp[1].messages[1]
              /\ IntentOf(1) = lex_resp[1].interpretations[1]

\* Lex answers an utterance that holds a greeting token.
C2_Witness ==
    /\ Returned(1)
    /\ LexAnswered(1)
    /\ Occurs(GreetingWords, Normalized(1))
    /\ ReplyOf(1) = Str(lexWelcome)
    /\ IntentOf(1) = Str(lexGreeting2)

-----------------------------------------------------------------------------
(* C3 *)

\* Lex is not configured in invocation r
LexOff(r) ==
    Blank(environ[r].LEX_BOT_ID) \/ Blank(environ[r].LEX_BOT_ALIAS_ID)

\* invocation r called Lex, and the call raised or returned no message text
LexFailed(r) ==
    /\ calls[r].lex = 1
    /\ \/ IsRaised(lex_resp[r])
       \/ /\ lex_resp[r].t = "resp"
          /\ \/ lex_resp[r].messages = << >>
             \/ Blank(lex_resp[r].messages[1])

Visible(r) == << StatusOf(r), IntentOf(r), ReplyOf(r) >>

\* the same key-phrase and sentiment outcomes in both invocations
SameEnrichment == kp_out[1] = kp_out[2] /\ sent_out[1] = sent_out[2]

\* C3: an invocation whose Lex call raises or returns no message text goes
\* on to the keyword routing, and answers as the invocation of the same
\* request without Lex does, given the same knowledge base and the same
\* key-phrase and sentiment outcomes.
C3_LexFailureLikeUnconfigured ==
    \A a, b \in Invocations :
        /\ LexFailed(a) =>
              /\ lex_out[a] = None
              /\ pc[a] \in { "keywords", "keyword_reply", "returned" }
              /\ Returned(a) => ByKeywords(a)
        /\ Ended(1) /\ Ended(2) /\ LexFailed(a) /\ LexOff(b) /\ SameEnrichment
              => Returned(a) /\ Returned(b) /\ Visible(a) = Visible(b)

\* Lex raises in the first invocation and is off in the second; both are
\* keyword-routed with key phrases and a sentiment.
C3_Witness ==
    /\ Ended(1) /\ Ended(2)
    /\ IsRaised(lex_resp[1]) /\ calls[1].lex = 1
    /\ LexOff(2) /\ calls[2].lex = 0
    /\ SameEnrichment
    /\ ByKeywords(1) /\ ByKeywords(2)
    /\ phrases[1].v # << >>
    /\ SentimentIn(2) = Str(NEGATIVE)

-----------------------------------------------------------------------------
(* C4 *)

BadRequestAnswer(r) ==
    Returned(r) /\ StatusOf(r) = 400 /\ IntentOf(r) = Str(BadRequest)

\* C4 as claimed: every request whose message is missing, empty or
\* whitespace-only is answered with status 400 and intent BadRequest.
C4_Original ==
    Ended(1) /\ MessageMissing(event) => BadRequestAnswer(1)

\* C4: every request that is not a preflight and whose message is missing,
\* empty or whitespace-only is answered with status 400 and intent
\* BadRequest, and no service is called, whatever the configuration.
C4_BadRequestUnlessPreflight ==
    Ended(1) /\ MessageMissing(event) /\ ~Preflight(event)
        => BadRequestAnswer(1) /\ calls[1] = NoCalls

\* A whitespace-only message, with Lex configured and no KB bucket.
C4_Witness ==
    /\ BadRequestAnswer(1)
    /\ event.message = Str(uBlank)
    /\ ~LexOff(1)
    /\ Blank(environ[1].KB_BUCKET)

-----------------------------------------------------------------------------
(* C5 *)

BucketUnset(r) == Blank(environ[r].KB_BUCKET)

\* get_object raises, or the object is not JSON
LoadRaises ==
    IsRaised(kbStore) \/ (kbStore.t = "object" /\ IsRaised(kbStore.parsed))

\* the object is JSON and not a dict
NotAMapping ==
    kbStore.t = "object" /\ kbStore.parsed.t \notin { "raised", "dict" }

ErrorAnswer(r, intent_) ==
    /\ Returned(r)
    /\ StatusOf(r) = 500
    /\ IntentOf(r) = Str(intent_)
    /\ IntentOf(r).v \notin Intents
    /\ calls[r].lex = 0 /\ lex_out[r] = Unset

\* a load that raises is answered with KBLoadError; an object that is not a
\* mapping is an empty knowledge base and the request is answered normally
C5_LoadParts ==
    /\ Ended(1) /\ calls[1].s3 = 1 /\ LoadRaises => ErrorAnswer(1, KBLoadError)
    /\ Ended(1) /\ calls[1].s3 = 1 /\ NotAMapping
          => /\ Returned(1) /\ StatusOf(1) = 200
             /\ DOMAIN kb[1].d = {}
             /\ ByKeywords(1) => IntentOf(1).v \in Intents

\* C5 as claimed: every request with a non-empty message is answered with
\* status 500 and ServerConfigError when no KB bucket is configured, and the
\* load's outcomes are as in C5_LoadParts.
C5_Original ==
    /\ Ended(1) /\ HasMessage(event) /\ BucketUnset(1)
          => ErrorAnswer(1, ServerConfigError)
    /\ C5_LoadParts

\* C5: every request that is not a preflight and has a non-empty message is
\* answered with status 500 and ServerConfigError when no KB bucket is
\* configured, and with status 500 and KBLoadError when the load raises; an
\* object that is not a mapping is an empty knowledge base, answered with 200.
C5_KbFailureNotSwallowed ==
    /\ Ended(1) /\ HasMessage(event) /\ BucketUnset(1) /\ ~Preflight(event)
          => ErrorAnswer(1, ServerConfigError) /\ calls[1] = NoCalls
    /\ Ended(1) /\ HasMessage(event) /\ ~BucketUnset(1) /\ ~Preflight(event)
          => calls[1].s3 = 1
    /\ C5_LoadParts

\* The object is not JSON while Lex is configured: KBLoadError.
C5_Witness ==
    /\ ErrorAnswer(1, KBLoadError)
    /\ HasMessage(event)
    /\ kbStore = Object(Raised("JSONDecodeError", errJsonDecode))
    /\ ~LexOff(1)

-----------------------------------------------------------------------------
(* C6 *)

\* as the specification enumerates it: Hi! How can I help you today?
SpecGreetingDefault == 
    << "H","i","!"," ","H","o","w"," ","c","a","n"," ","I"," ","h","e","l",
       "p"," ","y","o","u"," ","t","o","d","a","y","?" >>
\* as the specification enumerates it: We offer multiple programs. Ask which field you're interested in.
SpecProgramInfoDefault == 
    << "W","e"," ","o","f","f","e","r"," ","m","u","l","t","i","p","l","e",
       " ","p","r","o","g","r","a","m","s","."," ","A","s","k"," ","w","h",
       "i","c","h"," ","f","i","e","l","d"," ","y","o","u","'","r","e"," ",
       "i","n","t","e","r","e","s","t","e","d"," ","i","n","." >>
\* as the specification enumerates it: You can register via the student portal. Need step-by-step help?
SpecRegistrationHelpDefault == 
    << "Y","o","u"," ","c","a","n"," ","r","e","g","i","s","t","e","r"," ",
       "v","i","a"," ","t","h","e"," ","s","t","u","d","e","n","t"," ","p",
       "o","r","t","a","l","."," ","N","e","e","d"," ","s","t","e","p","-",
       "b","y","-","s","t","e","p"," ","h","e","l","p","?" >>
\* as the specification enumerates it: We provide student support services such as advising and career help.
SpecSupportServicesDefault == 
    << "W","e"," ","p","r","o","v","i","d","e"," ","s","t","u","d","e","n",
       "t"," ","s","u","p","p","o","r","t"," ","s","e","r","v","i","c","e",
       "s"," ","s","u","c","h"," ","a","s"," ","a","d","v","i","s","i","n",
       "g"," ","a","n","d"," ","c","a","r","e","e","r"," ","h","e","l","p","." >>
\* as the specification enumerates it: I'm not sure about that yet. Ask about programs, registration, or support services.
SpecFallbackDefault == 
    << "I","'","m"," ","n","o","t"," ","s","u","r","e"," ","a","b","o","u",
       "t"," ","t","h","a","t"," ","y","e","t","."," ","A","s","k"," ","a",
       "b","o","u","t"," ","p","r","o","g","r","a","m","s",","," ","r","e",
       "g","i","s","t","r","a","t","i","o","n",","," ","o","r"," ","s","u",
       "p","p","o","r","t"," ","s","e","r","v","i","c","e","s","." >>

SpecDefault(intent_) ==
    CASE intent_ = GreetingIntent -> SpecGreetingDefault
      [] intent_ = ProgramInfoIntent -> SpecProgramInfoDefault
      [] intent_ = RegistrationHelpIntent -> SpecRegistrationHelpDefault
      [] intent_ = SupportServicesIntent -> SpecSupportServicesDefault
      [] intent_ = FallbackIntent -> SpecFallbackDefault

\* s with U+2019 for every apostrophe
Typographic(s) == [i \in DOMAIN s |-> IF s[i] = "'" THEN RSQUO ELSE s[i]]

\* invocation r was keyword-routed to an intent the knowledge base lacks
RoutedWithoutEntry(r) == ByKeywords(r) /\ IntentOf(r).v \notin DOMAIN Snapshot

\* C6 as claimed: the reply for an intent the knowledge base has no entry
\* for is the default the specification enumerates, character for character.
C6_Original ==
    RoutedWithoutEntry(1) => ReplyOf(1) = Str(SpecDefault(IntentOf(1).v))

\* C6: the reply for an intent the knowledge base has no entry for is the
\* default the specification enumerates with U+2019 in place of each
\* apostrophe.
C6_DefaultReplyTypographic ==
    RoutedWithoutEntry(1)
        => ReplyOf(1) = Str(Typographic(SpecDefault(IntentOf(1).v)))

\* The Fallback default, from a knowledge base with other entries.
C6_Witness ==
    /\ RoutedWithoutEntry(1)
    /\ IntentOf(1) = Str(FallbackIntent)
    /\ DOMAIN Snapshot # {}
    /\ RSQUO \in Range(ReplyOf(1).v)

-----------------------------------------------------------------------------
(* C7 *)

\* C7: the reply for an intent the knowledge base has an entry for is that
\* entry and not the default, and no keyword-routed reply is the entry of
\* another intent.
C7_CustomReplyWins ==
    ByKeywords(1) =>
        /\ IntentOf(1).v \in DOMAIN Snapshot
              => /\ ReplyOf(1) = Str(Snapshot[IntentOf(1).v])
                 /\ ReplyOf(1) # Str(Typographic(SpecDefault(IntentOf(1).v)))
        /\ \A other \in DOMAIN Snapshot \ { IntentOf(1).v } :
              ReplyOf(1) # Str(Snapshot[other])

\* The ProgramInfo entry, of a knowledge base that holds all five.
C7_Witness ==
    /\ ByKeywords(1)
    /\ DOMAIN Snapshot = Intents
    /\ IntentOf(1) = Str(ProgramInfoIntent)
    /\ ReplyOf(1) = Str(kbProgramInfo)

-----------------------------------------------------------------------------
(* C8 *)

SameAnswer ==
    /\ Returned(1) /\ Returned(2)
    /\ IntentOf(1) = IntentOf(2)
    /\ ReplyOf(1) = ReplyOf(2)

\* C8 as claimed: two invocations of the same request under the same
\* configuration give the same intent and reply, whatever the services do.
C8_Original ==
    Ended(1) /\ Ended(2) /\ environ[1] = environ[2] => SameAnswer

\* C8: two invocations of the same request under the same configuration, in
\* which Lex and the key-phrase extraction do the same, give the same status,
\* intent and reply, whatever the sentiment detection does in each.
C8_SameAnswerGivenLexAndPhrases ==
    /\ Ended(1) /\ Ended(2) /\ environ[1] = environ[2]
    /\ lex_resp[1] = lex_resp[2] /\ kp_out[1] = kp_out[2]
    => SameAnswer /\ StatusOf(1) = StatusOf(2)

\* The sentiment detection fails in one invocation and not in the other.
C8_Witness ==
    /\ Ended(1) /\ Ended(2) /\ environ[1] = environ[2]
    /\ lex_resp[1] = lex_resp[2] /\ kp_out[1] = kp_out[2]
    /\ ByKeywords(1)
    /\ IsRaised(sent_out[1])
    /\ SentimentIn(1) = Absent
    /\ SentimentIn(2) = Str(POSITIVE)

-----------------------------------------------------------------------------
(* C9 *)

\* C9: an invocation calls each service at most once, also after a failed
\* call, and a preflight or a request without a message calls none.
C9_AtMostOneCallEach ==
    /\ \A s \in Services : calls[1][s] <= 1
    /\ Preflight(event) \/ MessageMissing(event) => calls[1] = NoCalls

\* Lex raises, and every service has been called once.
C9_Witness ==
    /\ Returned(1)
    /\ IsRaised(lex_resp[1])
    /\ IsRaised(kp_out[1])
    /\ \A s \in Services : calls[1][s] = 1

-----------------------------------------------------------------------------
(* C10 *)

\* C10 as claimed: every invocation ends by returning status 200, 400 or
\* 500, and a message that is not a str is answered with 400 and BadRequest.
C10_AlwaysReturns ==
    Ended(1) =>
        /\ Returned(1)
        /\ StatusOf(1) \in { 200, 400, 500 }
        /\ NonStrMessage(event) /\ ~Preflight(event) => BadRequestAnswer(1)

=============================================================================
